---- MODULE Spec2Model ----
(***************************************************************************)
(* State-machine model of barcode_validator/daemon.py: the polling loop of *)
(* main(), process_pr and its use of the prs table, run_validation and     *)
(* post_comment.  File names are sequences of one-character strings so     *)
(* that str.endswith and os.path.dirname are computed, not assumed.        *)
(***************************************************************************)
EXTENDS Integers, Sequences, FiniteSets, TLC

(* ---------------------------- bounds ---------------------------------- *)

\* PR numbers are 1..MaxPR
MaxPR == 2

\* datetime.now() ranges over 0..MaxTime
MaxTime == 1

\* daemon processes sharing one database file
NumDaemons == 2

\* stuck threshold of the design (the code has none); in clock units
StuckThreshold == 0

PRs == 1..MaxPR

Daemons == 1..NumDaemons

(* ---------------------------- file names ------------------------------ *)

\* str.endswith(suffix)
EndsWith(s, suf) ==
    /\ Len(suf) <= Len(s)
    /\ SubSeq(s, Len(s) - Len(suf) + 1, Len(s)) = suf

Suffixes ==
    { <<".", "f", "a", "s", "t", "a">>, <<".", "f", "a">>,
      <<".", "f", "a", "s">> }

\* a faulty variant of IsFasta: the dot of the suffix is not required
IsFasta_NoDot(name) ==
    \E suf \in Suffixes : EndsWith(name, Tail(suf))

\* f['filename'].endswith(('.fasta', '.fa', '.fas'))
IsFasta(name) ==
    \E suf \in Suffixes : EndsWith(name, suf)

\* positions of "/" in a path
SlashPositions(s) == { i \in 1..Len(s) : s[i] = "/" }

Max(S) == CHOOSE x \in S : \A y \in S : y <= x

\* os.path.dirname(path): what precedes the last "/", "" when there is none
Dirname(s) ==
    IF SlashPositions(s) = {} THEN <<>>
    ELSE SubSeq(s, 1, Max(SlashPositions(s)) - 1)

\* os.makedirs(d, exist_ok=True) raises FileNotFoundError for the empty path
MakedirsRaises(d) == d = <<>>

NameA == <<"d", "/", "a", ".", "f", "a", "s", "t", "a">>
NameB == <<"b", ".", "f", "a">>
NameC == <<"d", "/", "c", ".", "f", "a", "s">>
NameR == <<"d", "/", "r", ".", "t", "x", "t">>
NameX == <<"d", "/", "x", "f", "a">>

\* one entry of the files listing of a PR: its path, the status code its
\* raw_url answers with, and how many results validate_fasta returns for it
File(n, code, recs) == [filename |-> n, status_code |-> code, records |-> recs]

\* the changed-file lists a PR can have
FileLists ==
    << << File(NameA, 200, 1), File(NameR, 200, 1), File(NameC, 404, 1) >>,
       << File(NameC, 404, 1), File(NameA, 200, 2) >>,
       << File(NameB, 200, 1) >>,
       << File(NameR, 200, 1), File(NameX, 200, 1) >> >>

\* the remote repository's PRs: PR p has the (c + p)-th list, cyclically
Remote(c) == [p \in PRs |-> FileLists[((c + p) % Len(FileLists)) + 1]]

(* ---------------------------- state ----------------------------------- *)

VARIABLES
    open,        \* remote: numbers of the open PRs, in listing order
    files,       \* remote: files[p] is the changed-file list of PR p
    newRevision, \* remote: the head revision of PR p's branch has not been
                 \* passed to run_validation (nothing has, or a push followed)
    db,          \* the prs table: db[p] = [status, last_updated]
    now,         \* datetime.now()
    pc,          \* position of each daemon process
    prs,         \* main: the list get_open_prs returned
    idx,         \* main: index of the for loop over prs
    called,      \* main: PRs passed to process_pr in this cycle, in order
    written,     \* main: the PRs whose row this cycle has written
    listing,     \* main: outcome of this cycle's last listing call
    cur,         \* process_pr: the invocation in flight
    runs,        \* runs[p]: number of run_validation invocations for p
    posts        \* posts[p]: number of post_comment invocations for p

vars == << open, files, newRevision, db, now, pc, prs, idx, called,
           written, listing, cur, runs, posts >>

remote == << open, files >>

\* no row for the PR (fetchone() returns None)
NoRow == [status |-> "absent", last_updated |-> 0]

\* no process_pr invocation in flight
NoCur == [pr |-> 0, row |-> "none", admitted |-> FALSE, checkout |-> "none",
          raised |-> "none", validated |-> <<>>, results |-> <<>>,
          post |-> "none"]

\* the ascending and the descending listing of all PRs
Ascending == [i \in 1..MaxPR |-> i]
Descending == [i \in 1..MaxPR |-> MaxPR + 1 - i]

(* ---------------------------- the prs table --------------------------- *)

\* a faulty variant of Eligible: a completed or errored row is admitted again
Eligible_AllButProcessing(row) == row # "processing"

\* a faulty variant of Eligible: a row left 'processing' is taken over
Eligible_TakesOverProcessing(row) == row \in {"absent", "pending", "processing"}

\* a faulty variant of Eligible: an 'error' row is retried
Eligible_RetriesError(row) == row \in {"absent", "pending", "error"}

\* process_pr: row is None or row[0] == 'pending'
Eligible(row) == row = "absent" \/ row = "pending"

\* INSERT OR REPLACE INTO prs VALUES (p, status, t)
InsertOrReplace(table, p, status, t) ==
    [table EXCEPT ![p] = [status |-> status, last_updated |-> t]]

\* a faulty variant of Update: only last_updated is set, the status stays
Update_KeepsStatus(table, p, status, t) ==
    IF table[p].status = "absent" THEN table
    ELSE [table EXCEPT ![p].last_updated = t]

\* UPDATE prs SET status = .., last_updated = t WHERE pr_number = p:
\* changes nothing when there is no row for p
Update(table, p, status, t) ==
    IF table[p].status = "absent" THEN table
    ELSE [table EXCEPT ![p] = [status |-> status, last_updated |-> t]]

(* ---------------------------- run_validation -------------------------- *)

\* fasta_files = [f for f in files if f['filename'].endswith(...)]
FastaFiles(fs) == SelectSeq(fs, LAMBDA f : IsFasta(f.filename))

\* any(f['filename'].endswith(...) for f in files)
AnyFasta(fs) == \E i \in 1..Len(fs) : IsFasta(fs[i].filename)

\* [(file['filename'], result) for result in results]
ResultsOf(f) == [k \in 1..f.records |-> << f.filename, k >>]

NoFault == [at |-> 0, kind |-> "none"]

\* an exception raised while handling the at-th candidate file: by the
\* request for its content or by the validation engine
FileFaults(n) == {NoFault} \cup [at : 1..n, kind : {"fetch", "validate"}]

\* the for loop of run_validation from candidate i on; acc holds the files
\* validate_fasta has returned for, all_results and the step that raised
RECURSIVE FileLoop(_, _, _, _)
FileLoop(ff, i, fault, acc) ==
    IF i > Len(ff) THEN acc
    ELSE IF fault.at = i /\ fault.kind = "fetch"
    THEN [acc EXCEPT !.raised = "fetch"]
    ELSE IF ff[i].status_code = 200
    THEN IF MakedirsRaises(Dirname(ff[i].filename))
         THEN [acc EXCEPT !.raised = "makedirs"]
         ELSE IF fault.at = i /\ fault.kind = "validate"
         THEN [acc EXCEPT !.raised = "validate"]
         ELSE FileLoop(ff, i + 1, fault,
                       [acc EXCEPT !.validated = Append(@, ff[i].filename),
                                   !.results = @ \o ResultsOf(ff[i])])
    ELSE FileLoop(ff, i + 1, fault, acc)

\* run_validation(config, pr_number, branch, validator) on the listing fs:
\* co is what chdir and the two git commands do ("oserror": one of them
\* raises; "nonzero": git exits non-zero, which subprocess.run returns),
\* lf is what get_pr_files does, fault is what happens in the file loop
RunValidationResult(fs, co, lf, fault) ==
    LET start == [validated |-> <<>>, results |-> <<>>, raised |-> "none"] IN
    IF co = "oserror" THEN [start EXCEPT !.raised = "checkout"]
    ELSE IF lf # "ok" THEN [start EXCEPT !.raised = "get_pr_files"]
    ELSE FileLoop(FastaFiles(fs), 1, fault, start)

(* ---------------------------- initial states -------------------------- *)

InitCommon ==
    /\ newRevision = [p \in PRs |-> TRUE]
    /\ db = [p \in PRs |-> NoRow]
    /\ now = 0
    /\ prs = [d \in Daemons |-> <<>>]
    /\ idx = [d \in Daemons |-> 1]
    /\ called = [d \in Daemons |-> <<>>]
    /\ written = [d \in Daemons |-> {}]
    /\ listing = [d \in Daemons |-> "none"]
    /\ cur = [d \in Daemons |-> NoCur]
    /\ runs = [p \in PRs |-> 0]
    /\ posts = [p \in PRs |-> 0]

\* one daemon process: main() has set up the database and enters its loop
Init ==
    /\ InitCommon
    /\ open \in {Ascending, Descending}
    /\ \E c \in 1..Len(FileLists) : files = Remote(c)
    /\ pc = [d \in Daemons |-> IF d = 1 THEN "list" ELSE "off"]

\* every daemon process runs main() against the same database file; one PR
\* is open
InitRace ==
    /\ InitCommon
    /\ open = << 1 >>
    /\ files = Remote(Len(FileLists) - 1)
    /\ pc = [d \in Daemons |-> "list"]

(* ---------------------------- main ------------------------------------ *)

\* prs = get_open_prs(config): an exception, or the error body of a
\* non-success response (a dict, whose keys the for loop then indexes with
\* 'number'), propagates out of main and ends the process
GetOpenPrs(d) ==
    /\ pc[d] = "list"
    /\ \E out \in {"ok", "raise", "non_success"} :
         IF out = "ok"
         THEN /\ prs' = [prs EXCEPT ![d] = open]
              /\ listing' = [listing EXCEPT ![d] = "ok"]
              /\ pc' = [pc EXCEPT ![d] = "inspect"]
         ELSE /\ prs' = [prs EXCEPT ![d] = <<>>]
              /\ listing' = [listing EXCEPT ![d] = "failed"]
              /\ pc' = [pc EXCEPT ![d] = "dead"]
    /\ idx' = [idx EXCEPT ![d] = 1]
    /\ called' = [called EXCEPT ![d] = <<>>]
    /\ written' = [written EXCEPT ![d] = {}]
    /\ UNCHANGED << remote, newRevision, db, now, cur, runs, posts >>

\* for pr in prs: files = get_pr_files(config, pr_number); if any(...):
\* process_pr(...).  A failed listing ends the process as in GetOpenPrs.
InspectPr(d) ==
    /\ pc[d] = "inspect"
    /\ idx[d] <= Len(prs[d])
    /\ LET p == prs[d][idx[d]] IN
       \E out \in {"ok", "raise", "non_success"} :
         IF out # "ok"
         THEN /\ listing' = [listing EXCEPT ![d] = "failed"]
              /\ pc' = [pc EXCEPT ![d] = "dead"]
              /\ UNCHANGED << idx, called, cur >>
         ELSE /\ listing' = [listing EXCEPT ![d] = "ok"]
              /\ IF AnyFasta(files[p])
                 THEN /\ pc' = [pc EXCEPT ![d] = "select"]
                      /\ called' = [called EXCEPT ![d] = Append(@, p)]
                      /\ cur' = [cur EXCEPT ![d] = [NoCur EXCEPT !.pr = p]]
                      /\ UNCHANGED idx
                 ELSE /\ idx' = [idx EXCEPT ![d] = @ + 1]
                      /\ UNCHANGED << pc, called, cur >>
    /\ UNCHANGED << remote, newRevision, db, now, prs, written, runs, posts >>

\* the for loop is exhausted
EndCycle(d) ==
    /\ pc[d] = "inspect"
    /\ idx[d] > Len(prs[d])
    /\ pc' = [pc EXCEPT ![d] = "sleep"]
    /\ UNCHANGED << remote, newRevision, db, now, prs, idx, called, written,
                    listing, cur, runs, posts >>

\* time.sleep(POLL_INTERVAL), then the next iteration of while True
Sleep(d) ==
    /\ pc[d] = "sleep"
    /\ pc' = [pc EXCEPT ![d] = "list"]
    /\ listing' = [listing EXCEPT ![d] = "none"]
    /\ UNCHANGED << remote, newRevision, db, now, prs, idx, called, written,
                    cur, runs, posts >>

(* ---------------------------- process_pr ------------------------------ *)

\* c.execute("SELECT status ..."); row = c.fetchone(); the if of line 130
Select(d) ==
    /\ pc[d] = "select"
    /\ LET row == db[cur[d].pr].status IN
       /\ cur' = [cur EXCEPT ![d].row = row]
       /\ pc' = [pc EXCEPT ![d] = IF Eligible(row) THEN "insert" ELSE "ret"]
    /\ UNCHANGED << remote, newRevision, db, now, prs, idx, called, written,
                    listing, runs, posts >>

\* INSERT OR REPLACE ... 'processing'; conn.commit()
Insert(d) ==
    /\ pc[d] = "insert"
    /\ db' = InsertOrReplace(db, cur[d].pr, "processing", now)
    /\ cur' = [cur EXCEPT ![d].admitted = TRUE]
    /\ written' = [written EXCEPT ![d] = @ \cup {cur[d].pr}]
    /\ pc' = [pc EXCEPT ![d] = "run"]
    /\ UNCHANGED << remote, newRevision, now, prs, idx, called, listing,
                    runs, posts >>

\* the INSERT OR REPLACE raises sqlite3.OperationalError (database is
\* locked) because another process is writing to the database file; the
\* statement is inside the try block, so the handler runs
InsertLocked(d) ==
    /\ pc[d] = "insert"
    /\ \E e \in Daemons \ {d} : pc[e] \notin {"off", "dead"}
    /\ cur' = [cur EXCEPT ![d].raised = "insert"]
    /\ pc' = [pc EXCEPT ![d] = "except"]
    /\ UNCHANGED << remote, newRevision, db, now, prs, idx, called, written,
                    listing, runs, posts >>

\* results = run_validation(config, pr_number, branch, validator)
RunValidation(d) ==
    /\ pc[d] = "run"
    /\ LET p == cur[d].pr IN
       \E co \in {"ok", "nonzero", "oserror"}, lf \in {"ok", "failed"},
          fault \in FileFaults(Len(FastaFiles(files[p]))) :
         LET r == RunValidationResult(files[p], co, lf, fault) IN
         /\ cur' = [cur EXCEPT ![d].checkout = co,
                               ![d].validated = r.validated,
                               ![d].results = r.results,
                               ![d].raised = r.raised]
         /\ pc' = [pc EXCEPT ![d] = IF r.raised = "none" THEN "post"
                                    ELSE "except"]
         /\ runs' = [runs EXCEPT ![p] = @ + 1]
         /\ newRevision' = [newRevision EXCEPT ![p] = FALSE]
    /\ UNCHANGED << remote, db, now, prs, idx, called, written, listing,
                    posts >>

\* what post_comment can do: post the comment, get a non-success response
\* (requests.post returns it without raising), fail to reach the server
\* (requests.post raises), or fail in calculate_ranks on some result
PostOutcomes(results) ==
    {"ok", "http_error", "transport"}
        \cup (IF results = <<>> THEN {} ELSE {"ranks"})

\* post_comment(config, pr_number, results)
PostComment(d) ==
    /\ pc[d] = "post"
    /\ \E out \in PostOutcomes(cur[d].results) :
         /\ cur' = [cur EXCEPT ![d].post = out,
                               ![d].raised = IF out \in {"transport", "ranks"}
                                             THEN out ELSE "none"]
         /\ pc' = [pc EXCEPT ![d] = IF out \in {"transport", "ranks"}
                                    THEN "except" ELSE "complete"]
    /\ posts' = [posts EXCEPT ![cur[d].pr] = @ + 1]
    /\ UNCHANGED << remote, newRevision, db, now, prs, idx, called, written,
                    listing, runs >>

\* UPDATE prs SET status = 'completed' ...; conn.commit()
Complete(d) ==
    /\ pc[d] = "complete"
    /\ db' = Update(db, cur[d].pr, "completed", now)
    /\ pc' = [pc EXCEPT ![d] = "ret"]
    /\ UNCHANGED << remote, newRevision, now, prs, idx, called, written,
                    listing, cur, runs, posts >>

\* a faulty variant of Except: the handler only logs the error
Except_OnlyLogs(d) ==
    /\ pc[d] = "except"
    /\ pc' = [pc EXCEPT ![d] = "ret"]
    /\ UNCHANGED << remote, newRevision, db, now, prs, idx, called, written,
                    listing, cur, runs, posts >>

\* a faulty variant of Except: the handler also publishes a report of the
\* failure on the PR
Except_PostsReport(d) ==
    /\ pc[d] = "except"
    /\ db' = Update(db, cur[d].pr, "error", now)
    /\ pc' = [pc EXCEPT ![d] = "ret"]
    /\ cur' = [cur EXCEPT ![d].post = "ok"]
    /\ posts' = [posts EXCEPT ![cur[d].pr] = @ + 1]
    /\ UNCHANGED << remote, newRevision, now, prs, idx, called, written,
                    listing, runs >>

\* a faulty variant of Except: the handler records the error and raises it again,
\* which ends the process
Except_Reraises(d) ==
    /\ pc[d] = "except"
    /\ db' = Update(db, cur[d].pr, "error", now)
    /\ pc' = [pc EXCEPT ![d] = "dead"]
    /\ prs' = [prs EXCEPT ![d] = <<>>]
    /\ idx' = [idx EXCEPT ![d] = 1]
    /\ called' = [called EXCEPT ![d] = <<>>]
    /\ cur' = [cur EXCEPT ![d] = NoCur]
    /\ UNCHANGED << remote, newRevision, now, written, listing, runs, posts >>

\* except Exception: log; UPDATE prs SET status = 'error' ...; conn.commit()
Except(d) ==
    /\ pc[d] = "except"
    /\ db' = Update(db, cur[d].pr, "error", now)
    /\ pc' = [pc EXCEPT ![d] = "ret"]
    /\ UNCHANGED << remote, newRevision, now, prs, idx, called, written,
                    listing, cur, runs, posts >>

\* process_pr returns to the for loop of main
Return(d) ==
    /\ pc[d] = "ret"
    /\ pc' = [pc EXCEPT ![d] = "inspect"]
    /\ idx' = [idx EXCEPT ![d] = @ + 1]
    /\ cur' = [cur EXCEPT ![d] = NoCur]
    /\ UNCHANGED << remote, newRevision, db, now, prs, called, written,
                    listing, runs, posts >>

(* ---------------------------- environment ----------------------------- *)

\* a faulty variant of Kill: the interruption reaches the handler of
\* process_pr (as with except BaseException), which records 'error' for the
\* PR in flight before the process ends
Kill_RunsHandler(d) ==
    /\ pc[d] \notin {"dead", "off"}
    /\ db' = IF pc[d] \in {"run", "post", "complete", "except"}
             THEN Update(db, cur[d].pr, "error", now) ELSE db
    /\ pc' = [pc EXCEPT ![d] = "dead"]
    /\ prs' = [prs EXCEPT ![d] = <<>>]
    /\ idx' = [idx EXCEPT ![d] = 1]
    /\ called' = [called EXCEPT ![d] = <<>>]
    /\ written' = [written EXCEPT ![d] = {}]
    /\ listing' = [listing EXCEPT ![d] = "none"]
    /\ cur' = [cur EXCEPT ![d] = NoCur]
    /\ UNCHANGED << remote, newRevision, now, runs, posts >>

\* the process is killed (signal, KeyboardInterrupt, crash): nothing of it
\* runs any more, its memory is gone, the database file stays as it is
Kill(d) ==
    /\ pc[d] \notin {"dead", "off"}
    /\ pc' = [pc EXCEPT ![d] = "dead"]
    /\ prs' = [prs EXCEPT ![d] = <<>>]
    /\ idx' = [idx EXCEPT ![d] = 1]
    /\ called' = [called EXCEPT ![d] = <<>>]
    /\ written' = [written EXCEPT ![d] = {}]
    /\ listing' = [listing EXCEPT ![d] = "none"]
    /\ cur' = [cur EXCEPT ![d] = NoCur]
    /\ UNCHANGED << remote, newRevision, db, now, runs, posts >>

\* the daemon is started again: main() runs setup_database (CREATE TABLE IF
\* NOT EXISTS keeps the rows) and enters its loop
Restart(d) ==
    /\ pc[d] = "dead"
    /\ pc' = [pc EXCEPT ![d] = "list"]
    /\ prs' = [prs EXCEPT ![d] = <<>>]
    /\ idx' = [idx EXCEPT ![d] = 1]
    /\ called' = [called EXCEPT ![d] = <<>>]
    /\ written' = [written EXCEPT ![d] = {}]
    /\ listing' = [listing EXCEPT ![d] = "none"]
    /\ cur' = [cur EXCEPT ![d] = NoCur]
    /\ UNCHANGED << remote, newRevision, db, now, runs, posts >>

\* time passes
Tick ==
    /\ now < MaxTime
    /\ now' = now + 1
    /\ UNCHANGED << remote, newRevision, db, pc, prs, idx, called, written,
                    listing, cur, runs, posts >>

\* the local wall clock that datetime.now() reads is set back (the end of
\* daylight-saving time, a correction of the system clock)
ClockSetBack ==
    /\ now > 0
    /\ now' \in 0..(now - 1)
    /\ UNCHANGED << remote, newRevision, db, pc, prs, idx, called, written,
                    listing, cur, runs, posts >>

\* a new commit is pushed to the head branch of PR p, whose earlier head
\* revision had been passed to run_validation
PushRevision(p) ==
    /\ ~newRevision[p]
    /\ newRevision' = [newRevision EXCEPT ![p] = TRUE]
    /\ UNCHANGED << remote, db, now, pc, prs, idx, called, written, listing,
                    cur, runs, posts >>

(* ---------------------------- specifications -------------------------- *)

\* the steps of the daemons and of their environment, but for a kill
NextNoKill ==
    \/ \E d \in Daemons : GetOpenPrs(d)
    \/ \E d \in Daemons : InspectPr(d)
    \/ \E d \in Daemons : EndCycle(d)
    \/ \E d \in Daemons : Sleep(d)
    \/ \E d \in Daemons : Select(d)
    \/ \E d \in Daemons : Insert(d)
    \/ \E d \in Daemons : RunValidation(d)
    \/ \E d \in Daemons : PostComment(d)
    \/ \E d \in Daemons : Complete(d)
    \/ \E d \in Daemons : Except(d)
    \/ \E d \in Daemons : Return(d)
    \/ \E d \in Daemons : Restart(d)
    \/ Tick
    \/ \E p \in PRs : PushRevision(p)

Next ==
    \/ NextNoKill
    \/ \E d \in Daemons : Kill(d)

\* Next, with writers that can find the database locked by one another
NextRace ==
    \/ Next
    \/ \E d \in Daemons : InsertLocked(d)

\* Next, with a wall clock that can also be set back
NextWallClock ==
    \/ Next
    \/ ClockSetBack

\* a single daemon process
Spec == Init /\ [][Next]_vars

\* NumDaemons daemon processes on one database
SpecRace == InitRace /\ [][NextRace]_vars

\* a single daemon process that nothing kills while it runs
SpecNoKill == Init /\ [][NextNoKill]_vars

\* a single daemon process on a machine whose wall clock can be set back
SpecWallClock == Init /\ [][NextWallClock]_vars

(* ---------------------------- properties ------------------------------ *)

\* what run_validation and post_comment can raise
PipelineFailures ==
    {"checkout", "get_pr_files", "fetch", "makedirs", "validate", "ranks",
     "transport"}

\* daemon d is inside the try block of process_pr
InFlight(d) == pc[d] \in {"run", "post", "complete", "except"}

\* daemon d takes the if of process_pr on the row it has just read
Decides(d) == pc[d] = "select" /\ pc'[d] \in {"insert", "ret"}

\* the age of PR p's row
Age(p) == now - db[p].last_updated

\* C1: once the stored status of a PR is 'completed', no step changes its
\* row (status or last_updated) and run_validation is not invoked for it
\* again; so cycles over PRs that are all 'completed' invoke nothing.
C1_CompletedIsFinal ==
    [][\A p \in PRs :
          db[p].status = "completed" =>
              /\ db'[p] = db[p]
              /\ runs'[p] = runs[p]]_vars

\* C1 witness: a later cycle has called process_pr for a PR completed
\* earlier, read 'completed' and returned without admitting it
C1_Witness ==
    \E d \in Daemons :
        /\ pc[d] = "ret"
        /\ cur[d].row = "completed"
        /\ ~cur[d].admitted
        /\ runs[cur[d].pr] = 1
        /\ Age(cur[d].pr) > 0

\* C2: of the process_pr invocations that overlap on one PR number, at most
\* one is admitted (has written 'processing' and runs the pipeline); the
\* SELECT and the INSERT OR REPLACE act as one atomic step per key.
C2_OneAdmissionPerKey ==
    \A p \in PRs :
        Cardinality({d \in Daemons : cur[d].pr = p /\ cur[d].admitted}) <= 1

\* C3: a process_pr invocation that reads status 'error' admits the PR (and
\* so sets it to 'processing' and runs the pipeline again).
C3_ErrorIsRetried ==
    \A d \in Daemons :
        (pc[d] = "ret" /\ cur[d].row = "error") => cur[d].admitted

C5_CheckoutFailureIsFatal ==
    \A d \in Daemons :
        ( /\ pc[d] = "ret"
          /\ cur[d].admitted
          /\ cur[d].checkout \in {"nonzero", "oserror"} )
        => /\ cur[d].validated = <<>>
           /\ cur[d].post = "none"
           /\ db[cur[d].pr].status = "error"

\* C6: a PR whose run_validation succeeded ends 'completed' whether
\* post_comment posts the report, gets a non-success response or fails with
\* a transport error.
C6_PublishFailureIsSwallowed ==
    \A d \in Daemons :
        (pc[d] = "ret" /\ cur[d].post \in {"ok", "http_error", "transport"})
        => db[cur[d].pr].status = "completed"

\* C7: after a listing call of main (get_open_prs, get_pr_files) has failed
\* the daemon is asleep until its next cycle, and the aborted cycle has
\* written no row of the prs table.
C7_ListingFailureAbortsCycle ==
    \A d \in Daemons :
        listing[d] = "failed" => (pc[d] = "sleep" /\ written[d] = {})

\* the PRs of a listing that main passes to process_pr
WithFasta(ps) == SelectSeq(ps, LAMBDA p : AnyFasta(files[p]))

\* C8: an exception raised by run_validation or post_comment for an
\* admitted PR is caught in process_pr: the handler sets that PR's status to
\* 'error' and process_pr returns, the for loop of main goes on with the
\* next PR of the same listing, no row of another PR is touched, and by the
\* end of the cycle every listed PR with a FASTA file has been passed to
\* process_pr.
C8_FailureIsContained ==
    /\ [](\A d \in Daemons :
            (pc[d] = "ret" /\ cur[d].raised \in PipelineFailures)
            => db[cur[d].pr].status = "error")
    /\ [][\A d \in Daemons :
            (pc[d] = "except" /\ db' # db)
            => /\ pc'[d] = "ret"
               /\ db'[cur[d].pr].status = "error"
               /\ prs'[d] = prs[d] /\ idx'[d] = idx[d]
               /\ \A q \in PRs \ {cur[d].pr} : db'[q] = db[q]]_vars
    /\ [][\A d \in Daemons :
            (pc[d] = "ret" /\ pc'[d] \notin {"ret", "dead"})
            => /\ pc'[d] = "inspect"
               /\ prs'[d] = prs[d] /\ idx'[d] = idx[d] + 1]_vars
    /\ [](\A d \in Daemons :
            pc[d] = "sleep" => called[d] = WithFasta(prs[d]))

\* C8 witness: in one cycle the first PR of the listing failed and was set
\* to 'error', and the second was then admitted, processed and 'completed'
C8_Witness ==
    \E d \in Daemons :
        /\ pc[d] = "ret"
        /\ idx[d] = 2
        /\ written[d] = {prs[d][1], prs[d][2]}
        /\ db[prs[d][1]].status = "error"
        /\ cur[d].admitted
        /\ db[prs[d][2]].status = "completed"

\* C9 as claimed: process_pr admits a PR exactly when its head revision has
\* not been through the pipeline: never a second time for an unchanged
\* revision, and again once a new revision was pushed to a 'completed' PR.
C9_OncePerRevision ==
    [][\A d \in Daemons :
          Decides(d) =>
              /\ ~newRevision[cur[d].pr] => pc'[d] = "ret"
              /\ (newRevision[cur[d].pr]
                    /\ db[cur[d].pr].status = "completed")
                 => pc'[d] = "insert"]_vars

\* C9 as amended: a single daemon runs each PR number through the pipeline
\* at most once, whatever is pushed to its branch afterwards.
C9_OncePerPrNumber ==
    \A p \in PRs : runs[p] <= 1

\* C9 witness: a new revision was pushed to a 'completed' PR, a later call
\* of process_pr read 'completed' and returned without admitting it
C9_Witness ==
    \E d \in Daemons :
        /\ pc[d] = "ret"
        /\ cur[d].row = "completed"
        /\ ~cur[d].admitted
        /\ newRevision[cur[d].pr]
        /\ runs[cur[d].pr] = 1

\* the candidate files whose content request answers 200
Fetched(fs) == SelectSeq(FastaFiles(fs), LAMBDA f : f.status_code = 200)

\* the results of the files ff, file after file
RECURSIVE ResultsOfAll(_)
ResultsOfAll(ff) ==
    IF ff = <<>> THEN <<>>
    ELSE ResultsOf(Head(ff)) \o ResultsOfAll(Tail(ff))

\* nothing fails in the invocation of daemon d but requests for file
\* content that answer with a status other than 200
OnlyFetchFailures(d) ==
    /\ cur[d].admitted
    /\ cur[d].raised \notin {"checkout", "get_pr_files", "fetch", "validate",
                             "ranks", "transport"}

\* C10: for an admitted PR whose only failures are file requests answering
\* non-200, every other candidate file is saved and validated, the results
\* of exactly those files are passed to post_comment, and the status ends
\* as 'completed'.
C10_FetchFailuresOnlyShrinkOutcomes ==
    \A d \in Daemons :
        (pc[d] = "ret" /\ OnlyFetchFailures(d)) =>
            LET ok == Fetched(files[cur[d].pr]) IN
            /\ cur[d].validated = [i \in 1..Len(ok) |-> ok[i].filename]
            /\ cur[d].results = ResultsOfAll(ok)
            /\ cur[d].post # "none"
            /\ db[cur[d].pr].status = "completed"

\* the changes of a stored status that the design permits
PermittedEdges ==
    { << "absent", "processing" >>, << "error", "processing" >>,
      << "processing", "completed" >>, << "processing", "error" >> }

\* C11: every change of a PR's stored status is along a permitted edge:
\* into 'processing' only from absent or 'error', into 'completed' or
\* 'error' only from 'processing'.
C11_OnlyPermittedEdges ==
    [][\A p \in PRs :
          db'[p].status # db[p].status
          => << db[p].status, db'[p].status >> \in PermittedEdges]_vars

\* C11 witness: a later cycle has passed over one PR that went absent ->
\* processing -> completed and another that went absent -> processing ->
\* error
C11_Witness ==
    \E d \in Daemons, p, q \in PRs :
        /\ pc[d] = "sleep"
        /\ written[d] = {}
        /\ called[d] # <<>>
        /\ db[p].status = "completed"
        /\ db[q].status = "error"

\* what run_validation can raise
RunValidationFailures ==
    {"checkout", "get_pr_files", "fetch", "makedirs", "validate"}

\* C12: post_comment is called for a PR only by an invocation of process_pr
\* whose run_validation has returned; an invocation whose run_validation
\* raised calls no post_comment and returns with the status 'error'.
C12_CommentOnlyAfterSuccessfulRun ==
    /\ [](\A d \in Daemons :
            cur[d].raised \in RunValidationFailures
            => /\ cur[d].post = "none"
               /\ (pc[d] = "ret" => db[cur[d].pr].status = "error"))
    /\ [][\A p \in PRs :
            posts'[p] # posts[p]
            => \E d \in Daemons :
                 /\ pc[d] = "post" /\ cur[d].pr = p
                 /\ cur[d].checkout # "none" /\ cur[d].raised = "none"
                 /\ posts'[p] = posts[p] + 1]_vars
    /\ [][\A d \in Daemons :
            (pc[d] = "run" /\ pc'[d] = "except") => posts' = posts]_vars

\* C12 witness: process_pr returns from an invocation in which the
\* validation of a fetched file raised; nothing was posted on the PR and
\* its status is 'error'
C12_Witness ==
    \E d \in Daemons :
        /\ pc[d] = "ret"
        /\ cur[d].admitted
        /\ cur[d].raised = "validate"
        /\ cur[d].post = "none"
        /\ posts[cur[d].pr] = 0
        /\ db[cur[d].pr].status = "error"

\* some tail of the path is one of '.fasta', '.fa', '.fas'
EndsInFastaSuffix(name) ==
    \E k \in 1..Len(name) : SubSeq(name, k, Len(name)) \in Suffixes

\* the PRs of ps with at least one changed-file path ending in a FASTA
\* suffix, in the order of ps
Qualifying(ps) ==
    SelectSeq(ps, LAMBDA p : \E i \in 1..Len(files[p]) :
                                EndsInFastaSuffix(files[p][i].filename))

\* C13: the PRs main passes to process_pr in a cycle are exactly the listed
\* PRs with a changed-file path ending in '.fasta', '.fa' or '.fas', in
\* listing order, whatever their stored status: at every point of the for
\* loop the calls made so far are the qualifying PRs among those visited,
\* and at the end of the cycle they are the qualifying PRs of the listing.
C13_CalledAreTheQualifyingInOrder ==
    /\ [](\A d \in Daemons :
            /\ pc[d] = "sleep" => called[d] = Qualifying(prs[d])
            /\ pc[d] = "inspect"
               => called[d] = Qualifying(SubSeq(prs[d], 1, idx[d] - 1))
            /\ pc[d] \in {"select", "insert", "run", "post", "complete",
                          "except", "ret"}
               => /\ called[d] = Qualifying(SubSeq(prs[d], 1, idx[d]))
                  /\ cur[d].pr = prs[d][idx[d]])
    /\ [][\A d \in Daemons :
            (pc[d] = "inspect" /\ pc'[d] = "select")
            => \A s \in {"absent", "processing", "completed", "error"} :
                 db[prs[d][idx[d]]].status = s
                 => called'[d] = Append(called[d], prs[d][idx[d]])]_vars

\* C13 witness: a cycle has ended in which nothing was admitted; of the
\* listed PRs one has no FASTA path and was skipped, the other has one and
\* was passed to process_pr although its status is already 'completed'
C13_Witness ==
    \E d \in Daemons :
        /\ pc[d] = "sleep"
        /\ written[d] = {}
        /\ Len(called[d]) = 1
        /\ Len(prs[d]) > 1
        /\ db[called[d][1]].status = "completed"
        /\ \E i \in 1..Len(prs[d]) :
             /\ prs[d][i] # called[d][1]
             /\ \E j \in 1..Len(files[prs[d][i]]) :
                  files[prs[d][i]][j].filename = NameX

\* C14: every write process_pr makes to an existing record (the completed
\* or error write after the admission write, in any cycle and after any
\* restart) leaves its last_updated at least as large as it was.
C14_LastUpdatedNeverDecreases ==
    [][\A p \in PRs :
          (db[p].status # "absent" /\ db'[p] # db[p])
          => db'[p].last_updated >= db[p].last_updated]_vars

\* C15: when the process is killed while process_pr is inside its try block
\* for an admitted PR, the step writes nothing: the PR's record is
\* 'processing' before and after it, with the same last_updated, and no
\* other record changes.
C15_KilledInFlightStaysProcessing ==
    [][\A d \in Daemons :
          (InFlight(d) /\ cur[d].admitted /\ pc'[d] = "dead")
          => /\ db[cur[d].pr].status = "processing"
             /\ db' = db]_vars

\* C15 witness: the daemon was killed after run_validation had run for an
\* admitted PR and before any outcome was written; the process is dead and
\* the record is 'processing'
C15_Witness ==
    \E d \in Daemons, p \in PRs :
        /\ pc[d] = "dead"
        /\ listing[d] = "none"
        /\ runs[p] = 1
        /\ db[p].status = "processing"

\* daemon d holds PR p: its invocation of process_pr made the admission
\* write for p and has not yet written the outcome
Holds(d, p) == InFlight(d) /\ cur[d].pr = p /\ cur[d].admitted

\* C16: a record is written 'completed' or 'error' only by the invocation
\* of process_pr that made the admission write for it, and while one caller
\* holds a record 'processing' no step of another caller changes it.
C16_OnlyTheHolderWrites ==
    /\ [][\A d \in Daemons :
            (pc[d] \in {"complete", "except"} /\ pc'[d] = "ret"
                /\ db'[cur[d].pr] # db[cur[d].pr])
            => cur[d].admitted]_vars
    /\ [][\A d \in Daemons, p \in PRs :
            (Holds(d, p) /\ db'[p] # db[p]) => pc'[d] # pc[d]]_vars

\* C17: an admitted invocation of process_pr that reaches its return has
\* set the PR's status to 'completed' when run_validation and post_comment
\* raised nothing and to 'error' when one of them raised; it does not
\* return with the status 'processing'.
C17_AdmittedEndsCompletedOrError ==
    /\ \A d \in Daemons :
         (pc[d] = "ret" /\ cur[d].admitted)
         => /\ db[cur[d].pr].status \in {"completed", "error"}
            /\ db[cur[d].pr].status = "completed" <=> cur[d].raised = "none"
            /\ db[cur[d].pr].status = "error"
                   <=> cur[d].raised \in PipelineFailures
    /\ \A d \in Daemons :
         (InFlight(d) /\ cur[d].admitted)
         => db[cur[d].pr].status = "processing"

\* C17 witness: an admitted invocation returns after a run in which
\* nothing raised and the comment was posted; the status is 'completed'
C17_Witness ==
    \E d \in Daemons :
        /\ pc[d] = "ret"
        /\ cur[d].admitted
        /\ cur[d].raised = "none"
        /\ cur[d].post = "ok"
        /\ db[cur[d].pr].status = "completed"

\* the PRs whose record is 'processing'
Processing == { p \in PRs : db[p].status = "processing" }

\* C18: with one daemon process that is never killed, at most one record is
\* 'processing' at any moment and it is the record of the invocation of
\* process_pr in progress; when the next PR is admitted no other record is
\* 'processing'; and while the loop sleeps no record is 'processing'.
C18_StrictlySequential ==
    /\ [](Cardinality(Processing) <= 1)
    /\ [](\A p \in Processing :
            \E d \in Daemons : InFlight(d) /\ cur[d].pr = p)
    /\ [](\A d \in Daemons :
            pc[d] \in {"sleep", "list", "inspect", "select", "insert"}
            => Processing = {})
    /\ [][\A d \in Daemons :
            (pc[d] = "insert" /\ pc'[d] = "run")
            => /\ Processing = {}
               /\ Processing' = {cur[d].pr}]_vars

\* C18 witness: the second PR of the listing has just been admitted and is
\* 'processing' while the first, admitted earlier in the same cycle, is
\* 'completed' or 'error'
C18_Witness ==
    \E d \in Daemons :
        /\ pc[d] = "run"
        /\ idx[d] = 2
        /\ written[d] = {prs[d][1], prs[d][2]}
        /\ prs[d][1] # prs[d][2]
        /\ db[prs[d][1]].status \in {"completed", "error"}
        /\ db[prs[d][2]].status = "processing"

\* C19: with one daemon process starting from an empty table, post_comment
\* is called at most once per PR number, over all cycles, kills and
\* restarts; a PR whose status is 'completed' has had exactly one call, and
\* the status was written by the invocation whose post_comment call had
\* returned without raising.
C19_AtMostOneCommentPerPr ==
    /\ [](\A p \in PRs :
            /\ posts[p] <= 1
            /\ db[p].status = "completed" => posts[p] = 1)
    /\ [][\A p \in PRs :
            (db'[p].status = "completed" /\ db[p].status # "completed")
            => \E d \in Daemons :
                 /\ pc[d] = "complete" /\ cur[d].pr = p
                 /\ cur[d].post \in {"ok", "http_error"}
                 /\ cur[d].raised = "none"
                 /\ posts[p] = 1 /\ posts'[p] = 1]_vars

\* C19 witness: a later cycle in which nothing was admitted has passed over a
\* PR that is 'completed' and over one whose comment could not be sent and
\* that is 'error'; each has had one post_comment call and no second one
C19_Witness ==
    \E d \in Daemons, p, q \in PRs :
        /\ pc[d] = "sleep"
        /\ written[d] = {}
        /\ p \in {called[d][i] : i \in 1..Len(called[d])}
        /\ q \in {called[d][i] : i \in 1..Len(called[d])}
        /\ db[p].status = "completed" /\ posts[p] = 1
        /\ db[q].status = "error" /\ posts[q] = 1

====
